---------------------------- MODULE Spec2Model ----------------------------
(***************************************************************************)
(* The Ray tutorial notebooks as a state machine.                          *)
(*                                                                         *)
(* The caller is the notebook kernel: it executes the code cells of one    *)
(* notebook in order (remote functions, the Counter actor, JobLib).  The    *)
(* workers are the processes                                               *)
(* on which the submitted tasks and the actor run; they take steps of      *)
(* their own between the caller's steps.                                    *)
(*                                                                         *)
(* A handle (ObjectRef) is the index of its task in `tasks`.  A task's      *)
(* value is <<>> while it has none and <<v>> once the task produced v.      *)
(***************************************************************************)
EXTENDS Integers, Sequences, FiniteSets, TLC

\* How many times the interactive user may run a cell that can be run again
\* (ray.get(obj_ref) of the functions notebook, the increment cell of the
\* actor notebook).  Once is the recorded session.
MaxReps == 3
\* How many increment calls the user may submit in a row before resolving
\* any of them, and how many actors the user may create.
MaxCalls == 2
MaxActors == 2
\* How many times cell 1 (ray.init) may have run in one session of the actor
\* notebook: once in the recorded session, once more by the user.
MaxInits == 2

\* for i in range(4)
NumIter == 4
\* random.randint(0, 9)
RandLo == 0
RandHi == 9
\* RandomizedSearchCV(model, param_space, cv=5, n_iter=10, verbose=10)
Cv == 5
NIter == 10
\* pre_dispatch='2*n_jobs'
PreDispatch == 2
\* Using backend RayBackend with 8 concurrent workers.
FitWorkers == 8

VARIABLES
    nb,            \* which notebook the kernel runs: "func", "meth", "joblib"
    fit,           \* the fits of clf.fit: [dispatched, running, done]
    inits,         \* times cell 1 (ray.init) has run
    pc,            \* the cell (or loop) the caller is at
    session,       \* "none", "connected", "shutdown"
    binding,       \* what the name my_function is bound to
    out4,          \* Out[4] of the functions notebook: my_function() in-process
    obj_ref,       \* the variable obj_ref (0: unbound)
    futures_list,  \* the variable futures_list
    counter,       \* the variable counter: an actor handle (0: unbound)
    log,           \* what ic(...) wrote, in order
    got,           \* what the ray.get calls returned: records [h, v]
    ran,           \* times the cell the caller is at has run
    tasks,         \* the tasks, by handle: [fn, actor, status, value, runs]
    completed,     \* the handles of the finished tasks, in completion order
    actors         \* the actors, by actor handle: [alive, value, mailbox]

vars == <<nb, fit, inits, pc, session, binding, out4, obj_ref, futures_list,
          counter, log, got, ran, tasks, completed, actors>>

callerVars == <<binding, out4, obj_ref, futures_list, counter, log, got, ran>>
clusterVars == <<tasks, completed, actors>>

Handles == 1..Len(tasks)
ActorIds == 1..Len(actors)

-----------------------------------------------------------------------------
(* The definitions of the notebooks. *)

\* def my_function(): return 42
my_function == 42

\* def slow_function(): time.sleep(2); return random.randint(0, 9)
slow_function == RandLo..RandHi

\* Counter.__init__: self.value = 0
Counter_init == [value |-> 0]

\* Counter.remote(): a new actor whose __init__ has yet to run.
NewActor == [state |-> "creating", self |-> <<>>, mailbox |-> <<>>]

\* Counter_increment, returning the value from before the increment.
Counter_incrementStale(self) ==
    [self |-> [self EXCEPT !.value = self.value + 1], ret |-> self.value]

\* Counter.increment: self.value += 1; return self.value
Counter_increment(self) ==
    LET new == self.value + 1
    IN  [self |-> [self EXCEPT !.value = new], ret |-> new]

\* Body, with every function running the body of slow_function.
BodySlow(fn) == slow_function

\* The values a run of the function fn can return.
Body(fn) ==
    CASE fn = "my_function" -> {my_function}
      [] fn = "slow_function" -> slow_function

-----------------------------------------------------------------------------
(* The framework operations the cells call. *)

NewTask(fn, a) ==
    [fn |-> fn, actor |-> a, status |-> "pending", value |-> <<>>, runs |-> 0]

\* Remote, handing out the newest existing handle again once there is one.
RemoteSharedHandle(fn) ==
    IF tasks = <<>>
    THEN [handle |-> 1, tasks |-> <<NewTask(fn, 0)>>]
    ELSE [handle |-> Len(tasks), tasks |-> tasks]

\* Remote, with the handle returned and the task lost.
RemoteLost(fn) == [handle |-> Len(tasks) + 1, tasks |-> tasks]

\* f.remote(): creates a task and returns its handle at once.
Remote(fn) ==
    [handle |-> Len(tasks) + 1, tasks |-> Append(tasks, NewTask(fn, 0))]

\* counter.increment.remote(): creates a task for the actor a, puts it in the
\* actor's mailbox and returns its handle at once.
RemoteMethod(fn, a) ==
    [handle |-> Len(tasks) + 1,
     tasks |-> Append(tasks, NewTask(fn, a)),
     actors |-> [actors EXCEPT ![a].mailbox = Append(@, Len(tasks) + 1)]]

\* ray.get(h) can return: the task behind h has completed.
Ready(h) == h \in Handles /\ tasks[h].status = "done"

\* ray.get(h), when it returns: the value the task produced.
Get(h) == tasks[h].value[1]

Init ==
    /\ nb \in {"func", "meth", "joblib"}
    /\ fit = [dispatched |-> 0, running |-> 0, done |-> 0]
    /\ inits = 0
    /\ pc = "cell1"
    /\ session = "none"
    /\ binding = "undefined"
    /\ out4 = <<>>
    /\ obj_ref = 0
    /\ futures_list = <<>>
    /\ counter = 0
    /\ log = <<>>
    /\ got = {}
    /\ ran = 0
    /\ tasks = <<>>
    /\ completed = <<>>
    /\ actors = <<>>

-----------------------------------------------------------------------------
(* The cells of ex_remo_func.ipynb. *)

\* Cell1_Init, with the cell run and no session started.
Cell1_NoInit ==
    /\ pc = "cell1"
    /\ pc' = CASE nb = "func" -> "cell2"
               [] nb = "meth" -> "m_cell2"
               [] nb = "joblib" -> "j_cell2"
    /\ UNCHANGED <<nb, fit, inits, session, callerVars, clusterVars>>

\* cell 1 of either notebook: ray.init(ignore_reinit_error=True, ...)
Cell1_Init ==
    /\ pc = "cell1"
    /\ session' = "connected"
    /\ inits' = inits + 1
    /\ pc' = CASE nb = "func" -> "cell2"
               [] nb = "meth" -> "m_cell2"
               [] nb = "joblib" -> "j_cell2"
    /\ UNCHANGED <<nb, fit, callerVars, clusterVars>>

\* cell 2: import time, random
Cell2_Imports ==
    /\ pc = "cell2"
    /\ pc' = "cell3"
    /\ UNCHANGED <<nb, fit, inits, session, callerVars, clusterVars>>

\* cell 3: def my_function
Cell3_Def ==
    /\ pc = "cell3"
    /\ binding' = "local"
    /\ pc' = "cell4"
    /\ UNCHANGED <<nb, fit, inits, session, out4, obj_ref, futures_list, counter,
                   log, got, ran, clusterVars>>

\* cell 4: my_function()
Cell4_Call ==
    /\ pc = "cell4"
    /\ binding = "local"
    /\ out4' = <<my_function>>
    /\ pc' = "cell5"
    /\ UNCHANGED <<nb, fit, inits, session, binding, obj_ref, futures_list, counter,
                   log, got, ran, clusterVars>>

\* cell 5: @ray.remote def my_function
Cell5_DefRemote ==
    /\ pc = "cell5"
    /\ binding' = "remote"
    /\ pc' = "cell6"
    /\ UNCHANGED <<nb, fit, inits, session, out4, obj_ref, futures_list, counter,
                   log, got, ran, clusterVars>>

\* cell 6: obj_ref = my_function.remote()
Cell6_Submit ==
    /\ pc = "cell6"
    /\ binding = "remote"
    /\ LET r == Remote("my_function")
       IN  /\ obj_ref' = r.handle
           /\ tasks' = r.tasks
    /\ pc' = "cell7"
    /\ UNCHANGED <<nb, fit, inits, session, binding, out4, futures_list, counter,
                   log, got, ran, completed, actors>>

\* Cell7_Get with a ray.get that does not wait for the task.
Cell7_GetNoWait ==
    /\ pc = "cell7"
    /\ obj_ref \in Handles
    /\ got' = got \cup {[h |-> obj_ref,
                         v |-> IF Ready(obj_ref) THEN Get(obj_ref) ELSE 0]}
    /\ \/ /\ ran + 1 < MaxReps
          /\ ran' = ran + 1
          /\ pc' = "cell7"
       \/ /\ ran' = 0
          /\ pc' = "cell8"
    /\ UNCHANGED <<nb, fit, inits, session, binding, out4, obj_ref, futures_list,
                   counter, log, clusterVars>>

\* cell 7: ray.get(obj_ref)
Cell7_Get ==
    /\ pc = "cell7"
    /\ Ready(obj_ref)
    /\ got' = got \cup {[h |-> obj_ref, v |-> Get(obj_ref)]}
    /\ \/ /\ ran + 1 < MaxReps
          /\ ran' = ran + 1
          /\ pc' = "cell7"
       \/ /\ ran' = 0
          /\ pc' = "cell8"
    /\ UNCHANGED <<nb, fit, inits, session, binding, out4, obj_ref, futures_list,
                   counter, log, clusterVars>>

\* cell 8: @ray.remote def slow_function
Cell8_DefSlow ==
    /\ pc = "cell8"
    /\ pc' = "cell9"
    /\ UNCHANGED <<nb, fit, inits, session, callerVars, clusterVars>>

\* cell 9: futures_list = []
Cell9_Begin ==
    /\ pc = "cell9"
    /\ futures_list' = <<>>
    /\ pc' = "cell9_loop"
    /\ UNCHANGED <<nb, fit, inits, session, binding, out4, obj_ref, counter, log,
                   got, ran, clusterVars>>

\* Cell9_Iter with a call that waits for the previous task, as an in-process
\* call would.
Cell9_IterBlocking ==
    /\ pc = "cell9_loop"
    /\ Len(futures_list) < NumIter
    /\ futures_list # <<>> => Ready(futures_list[Len(futures_list)])
    /\ LET i == Len(futures_list)
           r == Remote("slow_function")
       IN  /\ tasks' = r.tasks
           /\ futures_list' = Append(futures_list, r.handle)
           /\ log' = Append(log, <<"i", i>>)
           /\ pc' = IF i + 1 < NumIter THEN "cell9_loop" ELSE "cell10"
    /\ UNCHANGED <<nb, fit, inits, session, binding, out4, obj_ref, counter, got,
                   ran, completed, actors>>

\* cell 9, one iteration of for i in range(4):
\*   future = slow_function.remote(); futures_list.append(future); ic(i)
Cell9_Iter ==
    /\ pc = "cell9_loop"
    /\ Len(futures_list) < NumIter
    /\ LET i == Len(futures_list)
           r == Remote("slow_function")
       IN  /\ tasks' = r.tasks
           /\ futures_list' = Append(futures_list, r.handle)
           /\ log' = Append(log, <<"i", i>>)
           /\ pc' = IF i + 1 < NumIter THEN "cell9_loop" ELSE "cell10"
    /\ UNCHANGED <<nb, fit, inits, session, binding, out4, obj_ref, counter, got,
                   ran, completed, actors>>

\* NextFuture, one handle too far.
NextFutureOffByOne(k) == futures_list[k] + 1

\* NextFuture, taking the handles as their tasks complete.
NextCompleted(k) ==
    IF k + 1 <= Len(completed) THEN completed[k + 1] ELSE 0

\* The handle the resolution loop of cell 10 resolves in its k-th iteration.
NextFuture(k) == futures_list[k]

\* Cell10_Iter, with the loop left one handle early.
Cell10_IterShort ==
    /\ pc = "cell10"
    /\ LET k == Len(log) - NumIter + 1
           future == NextFuture(k)
       IN  /\ Ready(future)
           /\ got' = got \cup {[h |-> future, v |-> Get(future)]}
           /\ log' = Append(log, <<"ray.get(future)", Get(future)>>)
           /\ pc' = IF k < Len(futures_list) - 1 THEN "cell10" ELSE "cell11"
    /\ UNCHANGED <<nb, fit, inits, session, binding, out4, obj_ref,
                   futures_list, counter, ran, clusterVars>>

\* cell 10, one iteration of for future in futures_list: ic(ray.get(future))
Cell10_Iter ==
    /\ pc = "cell10"
    /\ LET k == Len(log) - NumIter + 1
           future == NextFuture(k)
       IN  /\ Ready(future)
           /\ got' = got \cup {[h |-> future, v |-> Get(future)]}
           /\ log' = Append(log, <<"ray.get(future)", Get(future)>>)
           /\ pc' = IF k < Len(futures_list) THEN "cell10" ELSE "cell11"
    /\ UNCHANGED <<nb, fit, inits, session, binding, out4, obj_ref, futures_list,
                   counter, ran, clusterVars>>

\* cell 11 (cell 5 of the actor notebook, cell 9 of JobLib): ray.shutdown()
Shutdown ==
    /\ pc \in {"cell11", "m_cell5", "j_cell9"}
    /\ session' = "shutdown"
    /\ pc' = "end"
    /\ UNCHANGED <<nb, fit, inits, callerVars, clusterVars>>

-----------------------------------------------------------------------------
(* The workers. *)

\* CanStart, with a completed task run again.
CanRestart(h) ==
    /\ session = "connected"
    /\ tasks[h].status \in {"pending", "done"}
    /\ tasks[h].actor = 0

\* CanStart, with the tasks run one after the other, as in-process calls are.
CanStartInTurn(h) ==
    /\ session = "connected"
    /\ tasks[h].status = "pending"
    /\ tasks[h].actor = 0
    /\ \A e \in 1..(h - 1) : tasks[e].status = "done"

\* A worker may take up the pending task h.
CanStart(h) ==
    /\ session = "connected"
    /\ tasks[h].status = "pending"
    /\ tasks[h].actor = 0

\* A worker starts to run the task h.
StartTask(h) ==
    /\ CanStart(h)
    /\ tasks' = [tasks EXCEPT ![h].status = "running", ![h].runs = @ + 1]
    /\ UNCHANGED <<nb, fit, inits, pc, session, callerVars, completed, actors>>

\* Complete, with one result slot shared by the tasks: the value returned
\* last is the value of every completed task.
CompleteShared(h, v) ==
    [e \in Handles |->
        IF e = h
        THEN [tasks[e] EXCEPT !.status = "done", !.value = <<v>>]
        ELSE IF tasks[e].status = "done"
             THEN [tasks[e] EXCEPT !.value = <<v>>]
             ELSE tasks[e]]

\* The task h returns v: the object behind its handle is set.
Complete(h, v) ==
    [tasks EXCEPT ![h].status = "done", ![h].value = <<v>>]

\* The worker running h finishes: the function returns.
FinishTask(h) ==
    /\ session = "connected"
    /\ tasks[h].status = "running"
    /\ tasks[h].actor = 0
    /\ \E v \in Body(tasks[h].fn) : tasks' = Complete(h, v)
    /\ completed' = Append(completed, h)
    /\ UNCHANGED <<nb, fit, inits, pc, session, callerVars, actors>>

-----------------------------------------------------------------------------
(* The cells of ex_remo_meth.ipynb. *)

\* cell 2: @ray.remote class Counter
MCell2_Class ==
    /\ pc = "m_cell2"
    /\ pc' = "m_cell3"
    /\ UNCHANGED <<nb, fit, inits, session, callerVars, clusterVars>>

\* cell 3: counter = Counter.remote()
MCell3_Create ==
    /\ pc = "m_cell3"
    /\ actors' = Append(actors, NewActor)
    /\ counter' = Len(actors) + 1
    /\ pc' = "m_cell4"
    /\ UNCHANGED <<nb, fit, inits, session, binding, out4, obj_ref, futures_list,
                   log, got, ran, tasks, completed>>

\* MCell4_Submit, with the call waiting for the actor's __init__ to have run.
MCell4_SubmitWhenAlive ==
    /\ pc = "m_cell4"
    /\ actors[counter].state = "alive"
    /\ LET r == RemoteMethod("increment", counter)
       IN  /\ obj_ref' = r.handle
           /\ tasks' = r.tasks
           /\ actors' = r.actors
    /\ pc' = "m_cell4_get"
    /\ UNCHANGED <<nb, fit, inits, session, binding, out4, futures_list, counter,
                   log, got, ran, completed>>

\* cell 4, first statement: obj_ref = counter.increment.remote()
MCell4_Submit ==
    /\ pc = "m_cell4"
    /\ LET r == RemoteMethod("increment", counter)
       IN  /\ obj_ref' = r.handle
           /\ tasks' = r.tasks
           /\ actors' = r.actors
    /\ pc' = "m_cell4_get"
    /\ UNCHANGED <<nb, fit, inits, session, binding, out4, futures_list, counter,
                   log, got, ran, completed>>

\* cell 4, second statement: ray.get(obj_ref)
MCell4_Get ==
    /\ pc = "m_cell4_get"
    /\ Ready(obj_ref)
    /\ got' = got \cup {[h |-> obj_ref, v |-> Get(obj_ref)]}
    /\ \/ /\ ran + 1 < MaxReps
          /\ ran' = ran + 1
          /\ pc' = "m_cell4"
       \/ /\ ran' = 0
          /\ pc' = "m_cell5"
    /\ UNCHANGED <<nb, fit, inits, session, binding, out4, obj_ref, futures_list,
                   counter, log, clusterVars>>

-----------------------------------------------------------------------------
(* The actor process. *)

\* The actor a is running one of its method calls.
Busy(a) == \E h \in Handles : tasks[h].actor = a /\ tasks[h].status = "running"

\* The actor's process starts: __init__ runs.
ActorInit(a) ==
    /\ session = "connected"
    /\ actors[a].state = "creating"
    /\ actors' = [actors EXCEPT ![a].state = "alive", ![a].self = Counter_init]
    /\ UNCHANGED <<nb, fit, inits, pc, session, callerVars, tasks, completed>>

\* ActorStart, with the call that came last taken first.
ActorStartLast(a) ==
    /\ session = "connected"
    /\ actors[a].state = "alive"
    /\ actors[a].mailbox # <<>>
    /\ ~Busy(a)
    /\ LET n == Len(actors[a].mailbox)
           h == actors[a].mailbox[n]
       IN  /\ tasks' = [tasks EXCEPT ![h].status = "running", ![h].runs = @ + 1]
           /\ actors' = [actors EXCEPT ![a].mailbox = SubSeq(@, 1, n - 1)]
    /\ UNCHANGED <<nb, fit, inits, pc, session, callerVars, completed>>

\* The actor takes the next call from its mailbox.
ActorStart(a) ==
    /\ session = "connected"
    /\ actors[a].state = "alive"
    /\ actors[a].mailbox # <<>>
    /\ ~Busy(a)
    /\ LET h == Head(actors[a].mailbox)
       IN  tasks' = [tasks EXCEPT ![h].status = "running", ![h].runs = @ + 1]
    /\ actors' = [actors EXCEPT ![a].mailbox = Tail(@)]
    /\ UNCHANGED <<nb, fit, inits, pc, session, callerVars, completed>>

\* ActorFinish, with the value kept by the class: every live actor has it.
ActorFinishShared(a, h) ==
    /\ session = "connected"
    /\ tasks[h].actor = a
    /\ tasks[h].status = "running"
    /\ LET r == Counter_increment(actors[a].self)
       IN  /\ actors' = [b \in ActorIds |->
                            IF actors[b].state = "alive"
                            THEN [actors[b] EXCEPT !.self = r.self]
                            ELSE actors[b]]
           /\ tasks' = Complete(h, r.ret)
    /\ completed' = Append(completed, h)
    /\ UNCHANGED <<nb, fit, inits, pc, session, callerVars>>

\* The method call h of the actor a returns.
ActorFinish(a, h) ==
    /\ session = "connected"
    /\ tasks[h].actor = a
    /\ tasks[h].status = "running"
    /\ LET r == Counter_increment(actors[a].self)
       IN  /\ actors' = [actors EXCEPT ![a].self = r.self]
           /\ tasks' = Complete(h, r.ret)
    /\ completed' = Append(completed, h)
    /\ UNCHANGED <<nb, fit, inits, pc, session, callerVars>>

-----------------------------------------------------------------------------
(* The cells of the JobLib notebook. *)

\* The fits of the search: 5 folds for each of 10 candidates.
NumFits == Cv * NIter

\* cell 2: imports
JCell2_Imports ==
    /\ pc = "j_cell2"
    /\ pc' = "j_cell3"
    /\ UNCHANGED <<nb, fit, inits, session, callerVars, clusterVars>>

\* cell 3: register_ray()
JCell3_Register ==
    /\ pc = "j_cell3"
    /\ pc' = "j_cell4"
    /\ UNCHANGED <<nb, fit, inits, session, callerVars, clusterVars>>

\* cell 4: digits = load_digits()
JCell4_Load ==
    /\ pc = "j_cell4"
    /\ pc' = "j_cell5"
    /\ UNCHANGED <<nb, fit, inits, session, callerVars, clusterVars>>

\* cell 5: param_space = {...}; model = SVC(kernel="rbf")
JCell5_Space ==
    /\ pc = "j_cell5"
    /\ pc' = "j_cell6"
    /\ UNCHANGED <<nb, fit, inits, session, callerVars, clusterVars>>

\* cell 6: clf = RandomizedSearchCV(model, param_space, cv=5, n_iter=10, ...)
JCell6_Search ==
    /\ pc = "j_cell6"
    /\ pc' = "j_cell7"
    /\ UNCHANGED <<nb, fit, inits, session, callerVars, clusterVars>>

\* cell 7: with joblib.parallel_backend("ray"): search = clf.fit(...)
\* The call starts: "Fitting 5 folds for each of 10 candidates".
JCell7_Fit ==
    /\ pc = "j_cell7"
    /\ fit' = [dispatched |-> 0, running |-> 0, done |-> 0]
    /\ log' = Append(log, <<"Fitting", NumFits>>)
    /\ pc' = "j_fit"
    /\ UNCHANGED <<nb, inits, session, binding, out4, obj_ref, futures_list, counter,
                   got, ran, clusterVars>>

\* clf.fit hands the next fit to the ray backend: at most pre_dispatch
\* fits per worker are out at a time.
JFit_Dispatch ==
    /\ pc = "j_fit"
    /\ fit.dispatched < NumFits
    /\ fit.dispatched - fit.done < PreDispatch * FitWorkers
    /\ fit' = [fit EXCEPT !.dispatched = @ + 1]
    /\ UNCHANGED <<nb, inits, pc, session, callerVars, clusterVars>>

\* A worker of the backend starts a dispatched fit.
JFit_Start ==
    /\ session = "connected"
    /\ fit.running < FitWorkers
    /\ fit.done + fit.running < fit.dispatched
    /\ fit' = [fit EXCEPT !.running = @ + 1]
    /\ UNCHANGED <<nb, inits, pc, session, callerVars, clusterVars>>

\* A fit completes: "[CV] ... score=..., total=...".
JFit_Finish ==
    /\ session = "connected"
    /\ fit.running > 0
    /\ fit' = [fit EXCEPT !.running = @ - 1, !.done = @ + 1]
    /\ UNCHANGED <<nb, inits, pc, session, callerVars, clusterVars>>

\* JCell7_Return, with the call returning once every fit is handed out.
JCell7_ReturnEarly ==
    /\ pc = "j_fit"
    /\ fit.dispatched = NumFits
    /\ log' = Append(log, <<"Done", fit.done>>)
    /\ pc' = "j_cell8"
    /\ UNCHANGED <<nb, fit, inits, session, binding, out4, obj_ref, futures_list,
                   counter, got, ran, clusterVars>>

\* clf.fit returns: "Done 50 out of 50 | ... finished".
JCell7_Return ==
    /\ pc = "j_fit"
    /\ fit.done = NumFits
    /\ log' = Append(log, <<"Done", fit.done>>)
    /\ pc' = "j_cell8"
    /\ UNCHANGED <<nb, fit, inits, session, binding, out4, obj_ref, futures_list,
                   counter, got, ran, clusterVars>>

\* cell 8: search.best_params_
JCell8_Best ==
    /\ pc = "j_cell8"
    /\ pc' = "j_cell9"
    /\ UNCHANGED <<nb, fit, inits, session, callerVars, clusterVars>>

Next ==
    \/ Cell1_Init
    \/ Cell2_Imports
    \/ Cell3_Def
    \/ Cell4_Call
    \/ Cell5_DefRemote
    \/ Cell6_Submit
    \/ Cell7_Get
    \/ Cell8_DefSlow
    \/ Cell9_Begin
    \/ Cell9_Iter
    \/ Cell10_Iter
    \/ Shutdown
    \/ \E h \in Handles : StartTask(h)
    \/ \E h \in Handles : FinishTask(h)
    \/ MCell2_Class
    \/ MCell3_Create
    \/ MCell4_Submit
    \/ MCell4_Get
    \/ \E a \in ActorIds : ActorInit(a)
    \/ \E a \in ActorIds : ActorStart(a)
    \/ \E a \in ActorIds, h \in Handles : ActorFinish(a, h)
    \/ JCell2_Imports
    \/ JCell3_Register
    \/ JCell4_Load
    \/ JCell5_Space
    \/ JCell6_Search
    \/ JCell7_Fit
    \/ JFit_Dispatch
    \/ JFit_Start
    \/ JFit_Finish
    \/ JCell7_Return
    \/ JCell8_Best

Spec == Init /\ [][Next]_vars

\* Every step that can be taken is taken in the end: the kernel runs the
\* cells, the workers run the tasks they were given.
FairSpec == Spec /\ WF_vars(Next)

-----------------------------------------------------------------------------
(* Remote failures.  No function of the notebooks can raise; the steps below
   add a remote computation that fails, and the ray.get that then raises in
   the caller and ends its cell. *)

\* The handle the caller is resolving (0: none).
Awaited ==
    CASE pc \in {"cell7", "m_cell4_get"} -> obj_ref
      [] pc = "cell10" -> NextFuture(Len(log) - NumIter + 1)
      [] OTHER -> 0

\* The running task h fails.
TaskFails(h) ==
    /\ session = "connected"
    /\ tasks[h].status = "running"
    /\ tasks' = [tasks EXCEPT ![h].status = "failed"]
    /\ UNCHANGED <<nb, fit, inits, pc, session, callerVars, completed, actors>>

\* GetRaises, with the failure swallowed: ray.get returns 0 and the cell ends.
GetReturnsDefault ==
    /\ Awaited \in Handles
    /\ tasks[Awaited].status = "failed"
    /\ got' = got \cup {[h |-> Awaited, v |-> 0]}
    /\ pc' = "error"
    /\ UNCHANGED <<nb, fit, inits, session, binding, out4, obj_ref, futures_list, counter,
                   log, ran, clusterVars>>

\* ray.get(h) of a failed task: the failure is raised in the caller.
GetRaises ==
    /\ Awaited \in Handles
    /\ tasks[Awaited].status = "failed"
    /\ log' = Append(log, <<"error", Awaited>>)
    /\ pc' = "error"
    /\ UNCHANGED <<nb, fit, inits, session, binding, out4, obj_ref, futures_list, counter,
                   got, ran, clusterVars>>

NextF ==
    \/ Next
    \/ \E h \in Handles : TaskFails(h)
    \/ GetRaises

SpecF == Init /\ [][NextF]_vars

-----------------------------------------------------------------------------
(* Resolving a collection.  The notebooks resolve their handles one by one;
   the step below is cell 10 written as one call, ic(ray.get(futures_list)). *)

\* ray.get(hs) can return: every task behind a handle of hs has completed.
ReadyAll(hs) == \A j \in 1..Len(hs) : Ready(hs[j])

\* GetAll, with the values in the order in which the tasks completed.
GetAllByCompletion(hs) ==
    LET done == SelectSeq(completed, LAMBDA h : \E j \in 1..Len(hs) : hs[j] = h)
    IN  [j \in 1..Len(hs) |-> Get(done[j])]

\* ray.get(hs), when it returns: one value per handle, in the order of hs.
GetAll(hs) == [j \in 1..Len(hs) |-> Get(hs[j])]

\* cell 10 as one call: ic(ray.get(futures_list))
Cell10_GetAll ==
    /\ pc = "cell10"
    /\ Len(log) = NumIter
    /\ ReadyAll(futures_list)
    /\ LET vs == GetAll(futures_list)
       IN  /\ got' = got \cup {[h |-> futures_list[j], v |-> vs[j]] :
                                 j \in 1..Len(futures_list)}
           /\ log' = Append(log, <<"ray.get(futures_list)", vs>>)
    /\ pc' = "cell11"
    /\ UNCHANGED <<nb, fit, inits, session, binding, out4, obj_ref, futures_list,
                   counter, ran, clusterVars>>

NextAll ==
    \/ Next
    \/ Cell10_GetAll

SpecAll == Init /\ [][NextAll]_vars

-----------------------------------------------------------------------------
(* The actor notebook run interactively: the user runs cell 1 again, runs
   cell 3 again for another actor, and submits several increment calls
   before resolving any of them. *)

\* ray.init(ignore_reinit_error=True, ...)
ignore_reinit_error == TRUE

\* RayInit, with the flag not honoured.
RayInitStrict(ignore) ==
    IF session = "connected"
    THEN [raised |-> TRUE, session |-> session,
          tasks |-> tasks, actors |-> actors]
    ELSE [raised |-> FALSE, session |-> "connected",
          tasks |-> <<>>, actors |-> <<>>]

\* ray.init(ignore_reinit_error=ignore): with a session connected, the call
\* raises unless told to ignore the reinit, and then changes nothing;
\* without one, it starts a session, with no task and no actor.
RayInit(ignore) ==
    IF session = "connected"
    THEN [raised |-> ~ignore, session |-> session,
          tasks |-> tasks, actors |-> actors]
    ELSE [raised |-> FALSE, session |-> "connected",
          tasks |-> <<>>, actors |-> <<>>]

\* cell 1, run again.
Cell1_Rerun ==
    /\ pc \in {"m_cell2", "m_cell3", "m_cell4", "m_cell4_get", "m_batch_get",
               "m_cell5"}
    /\ inits < MaxInits
    /\ inits' = inits + 1
    /\ LET r == RayInit(ignore_reinit_error)
       IN  /\ session' = r.session
           /\ tasks' = r.tasks
           /\ actors' = r.actors
           /\ pc' = IF r.raised THEN "error" ELSE pc
    /\ UNCHANGED <<nb, fit, callerVars, completed>>

\* cell 3, run again: counter = Counter.remote()
MCell3_Again ==
    /\ pc = "m_cell4"
    /\ Len(actors) < MaxActors
    /\ actors' = Append(actors, NewActor)
    /\ counter' = Len(actors) + 1
    /\ UNCHANGED <<nb, fit, inits, pc, session, binding, out4, obj_ref,
                   futures_list, log, got, ran, tasks, completed>>

\* counter.increment.remote(), the handle kept in a list and not resolved.
MBatch_Submit ==
    /\ pc = "m_cell4"
    /\ Len(futures_list) < MaxCalls
    /\ LET r == RemoteMethod("increment", counter)
       IN  /\ futures_list' = Append(futures_list, r.handle)
           /\ tasks' = r.tasks
           /\ actors' = r.actors
    /\ UNCHANGED <<nb, fit, inits, pc, session, binding, out4, obj_ref,
                   counter, log, got, ran, completed>>

\* The handles of the list that no ray.get has resolved.
Unresolved ==
    {j \in 1..Len(futures_list) : ~\E g \in got : g.h = futures_list[j]}

\* ray.get of a handle of the list, in any order, once the submitting is
\* over; with the last one resolved the user goes on to the last cell.
MBatch_Get ==
    /\ pc \in {"m_cell4", "m_batch_get"}
    /\ \E j \in Unresolved :
          /\ Ready(futures_list[j])
          /\ got' = got \cup {[h |-> futures_list[j], v |-> Get(futures_list[j])]}
          /\ pc' = IF Unresolved = {j} THEN "m_cell5" ELSE "m_batch_get"
    /\ UNCHANGED <<nb, fit, inits, session, binding, out4, obj_ref,
                   futures_list, counter, log, ran, clusterVars>>

InitK == Init /\ nb = "meth"

NextK ==
    \/ Cell1_Init
    \/ MCell2_Class
    \/ MCell3_Create
    \/ MCell4_Submit
    \/ MCell4_Get
    \/ Shutdown
    \/ \E a \in ActorIds : ActorInit(a)
    \/ \E a \in ActorIds : ActorStart(a)
    \/ \E a \in ActorIds, h \in Handles : ActorFinish(a, h)
    \/ Cell1_Rerun
    \/ MCell3_Again
    \/ MBatch_Submit
    \/ MBatch_Get

SpecK == InitK /\ [][NextK]_vars

-----------------------------------------------------------------------------
(* The claims. *)

\* The ic(i) lines of the first n iterations of the submission loop.
Logged(n) == [j \in 1..n |-> <<"i", j - 1>>]

\* The slow_function tasks.
SlowTasks == {h \in Handles : tasks[h].fn = "slow_function"}

\* C1: submitting never blocks.  Wherever the caller stands at a .remote()
\* call, the call can be taken, whatever the state of the tasks; during the
\* submission loop the handles appended and the lines logged are those of the
\* iterations done so far, and once the loop is over futures_list holds 4
\* handles and the log starts with i = 0, 1, 2, 3.
C1_SubmitNeverBlocks ==
    /\ pc = "cell6" => ENABLED Cell6_Submit
    /\ pc = "cell9_loop" =>
          /\ ENABLED Cell9_Iter
          /\ log = Logged(Len(futures_list))
    /\ pc \in {"cell10", "cell11"} \/ (pc = "end" /\ nb = "func") =>
          /\ Len(futures_list) = NumIter
          /\ SubSeq(log, 1, NumIter) = Logged(NumIter)

\* The submission loop is over and no slow_function task has even started.
C1_Witness ==
    /\ pc = "cell10"
    /\ Len(futures_list) = NumIter
    /\ \A h \in SlowTasks : tasks[h].status = "pending"

\* C2: whatever a ray.get has returned for a handle, the task behind the
\* handle has completed and the value is the one the task produced.
C2_GetAfterCompletion ==
    \A g \in got :
        /\ g.h \in Handles
        /\ tasks[g.h].status = "done"
        /\ tasks[g.h].value = <<g.v>>

\* The resolution loop has returned a value while a later task still runs.
C2_Witness ==
    /\ pc = "cell10"
    /\ \E g \in got : g.h \in SlowTasks
    /\ \E h \in SlowTasks : tasks[h].status = "running"

\* C3: every .remote() call made a new handle bound to one task of the
\* function called: obj_ref and the entries of futures_list are pairwise
\* distinct handles, there are as many tasks as calls, futures_list is in
\* submission order, and after the loop it holds 4 handles.
C3_OneHandlePerInvocation ==
    nb = "func" =>
        /\ Len(tasks) = (IF obj_ref = 0 THEN 0 ELSE 1) + Len(futures_list)
        /\ obj_ref # 0 => obj_ref \in Handles /\ tasks[obj_ref].fn = "my_function"
        /\ \A j \in 1..Len(futures_list) :
              /\ futures_list[j] \in Handles
              /\ futures_list[j] # obj_ref
              /\ tasks[futures_list[j]].fn = "slow_function"
              /\ \A l \in 1..Len(futures_list) :
                    j < l => futures_list[j] < futures_list[l]
        /\ pc \in {"cell10", "cell11", "end"} => Len(futures_list) = NumIter

\* The loop is over: 4 handles, none of them obj_ref.
C3_Witness ==
    /\ pc = "cell10"
    /\ Cardinality({futures_list[j] : j \in 1..Len(futures_list)} \cup {obj_ref})
         = NumIter + 1

\* C4: a handle is resolved at most once.  In every step, a task that has a
\* value keeps it, no task is run a second time, and the ray.get calls have
\* returned one value only per handle.
C4_Step ==
    /\ \A h \in Handles :
          /\ tasks[h].value # <<>> => tasks'[h].value = tasks[h].value
          /\ tasks'[h].runs <= 1
    /\ \A g1, g2 \in got' : g1.h = g2.h => g1.v = g2.v

C4_ResolvedOnce == [][C4_Step]_vars

\* ray.get(obj_ref) has returned twice, with the same value.
C4_Witness ==
    /\ pc = "cell7"
    /\ ran >= 2
    /\ Cardinality(got) = 1

\* C5: the k-th value the resolution loop logs is the value of the task
\* created in the k-th iteration of the submission loop.
C5_SubmissionOrder ==
    nb = "func" /\ Len(log) > NumIter =>
        \A k \in 1..(Len(log) - NumIter) :
            /\ k <= Len(futures_list)
            /\ tasks[futures_list[k]].value # <<>>
            /\ log[NumIter + k] =
                  <<"ray.get(future)", tasks[futures_list[k]].value[1]>>

\* All 4 values are logged, the tasks having completed in the reverse of
\* the submission order and with pairwise different values.
C5_Witness ==
    /\ pc = "cell11"
    /\ Len(log) = 2 * NumIter
    /\ \A j \in 1..NumIter :
          completed[1 + j] = futures_list[NumIter + 1 - j]
    /\ \A j, l \in 1..NumIter :
          j # l => tasks[futures_list[j]].value # tasks[futures_list[l]].value

\* The failures raised in the caller.
Raised == {log[j][2] : j \in {l \in 1..Len(log) : log[l][1] = "error"}}

\* C6: a remote failure is propagated by the resolve step.  No value is
\* ever delivered for the handle of a failed task; where the caller resolves
\* the handle of a failed task, the ray.get can only raise; the caller's
\* cell has ended in an error exactly when a failure was raised, and every
\* failure raised is that of a failed task; a submit step is taken
\* whether or not a task has failed.
C6_FailurePropagates ==
    /\ \A h \in Handles :
          tasks[h].status = "failed" => ~\E g \in got : g.h = h
    /\ Awaited \in Handles /\ tasks[Awaited].status = "failed" =>
          /\ ENABLED GetRaises
          /\ ~ENABLED (Cell7_Get \/ Cell10_Iter \/ MCell4_Get)
    /\ pc = "error" <=> Raised # {}
    /\ \A h \in Raised : tasks[h].status = "failed"
    /\ pc = "cell9_loop" => ENABLED Cell9_Iter
    /\ pc = "m_cell4" => ENABLED MCell4_Submit

\* The resolution loop has delivered a value and then raised the failure of
\* a later slow_function task.
C6_Witness ==
    /\ pc = "error"
    /\ \E h \in Raised : h \in SlowTasks
    /\ \E g \in got : g.h \in SlowTasks

\* C7: every execution in which the steps that can be taken are taken
\* reaches the final ray.shutdown().
C7_ReachesShutdown == <>(pc = "end" /\ session = "shutdown")

\* The caller waits at a ray.get for a task that has not completed.
C7_Witness ==
    /\ pc = "cell10"
    /\ ~ENABLED Cell10_Iter

\* C8: what ray.get(my_function.remote()) returns is what the in-process
\* call my_function() returned, 42.
C8_RemoteEqualsLocal ==
    nb = "func" =>
        \A g \in got :
            g.h = obj_ref => out4 = <<g.v>> /\ g.v = 42

\* ray.get(obj_ref) has returned.
C8_Witness ==
    /\ pc = "cell8"
    /\ \E g \in got : g.h = obj_ref

\* The increment calls of the actor a that have returned.
Returned(a) ==
    {h \in Handles : tasks[h].actor = a /\ tasks[h].status = "done"}

\* C9: the Counter actor is stateful.  A live actor's value is the number
\* of its increment calls that have returned (0 for a fresh one), the n-th
\* increment call returns n, and that is what its ray.get returns.
C9_CounterCounts ==
    nb = "meth" =>
        /\ \A a \in ActorIds :
              actors[a].state = "alive" =>
                  actors[a].self.value = Cardinality(Returned(a))
        /\ \A h \in Handles :
              tasks[h].status = "done" => tasks[h].value = <<h>>
        /\ \A g \in got : g.v = g.h

\* Three increments have been resolved, to 1, 2 and 3.
C9_Witness ==
    /\ nb = "meth"
    /\ {[h |-> 1, v |-> 1], [h |-> 2, v |-> 2], [h |-> 3, v |-> 3]}
         \subseteq got

C11_Step ==
    /\ \A h \in 1..Len(tasks') :
          tasks'[h].fn = "my_function" /\ tasks'[h].status = "done" =>
              /\ tasks'[h].value = <<42>>
              /\ \A g \in got' : g.h = h => g.v = 42
    /\ \A h \in Handles :
          tasks[h].actor = 0 /\ tasks'[h] # tasks[h] =>
              /\ \A e \in Handles \ {h} : tasks'[e] = tasks[e]
              /\ Len(tasks') = Len(tasks)
              /\ actors' = actors
              /\ callerVars' = callerVars

CallerStep ==
    \/ Cell1_Init \/ Cell2_Imports \/ Cell3_Def \/ Cell4_Call
    \/ Cell5_DefRemote \/ Cell6_Submit \/ Cell7_Get \/ Cell8_DefSlow
    \/ Cell9_Begin \/ Cell9_Iter \/ Cell10_Iter \/ Shutdown
    \/ MCell2_Class \/ MCell3_Create \/ MCell4_Submit \/ MCell4_Get
    \/ JCell2_Imports \/ JCell3_Register \/ JCell4_Load \/ JCell5_Space
    \/ JCell6_Search \/ JCell7_Fit \/ JFit_Dispatch \/ JCell7_Return
    \/ JCell8_Best

\* Where the caller is inside a ray.get or inside clf.fit.
ResolutionPoints == {"cell7", "cell10", "m_cell4_get", "j_fit"}

\* The place of a cell in its notebook.
CellNo(c) ==
    CASE c \in {"cell1"} -> 1
      [] c \in {"cell2", "m_cell2", "j_cell2"} -> 2
      [] c \in {"cell3", "m_cell3", "j_cell3"} -> 3
      [] c \in {"cell4", "m_cell4", "m_cell4_get", "j_cell4"} -> 4
      [] c \in {"cell5", "m_cell5", "j_cell5"} -> 5
      [] c \in {"cell6", "j_cell6"} -> 6
      [] c \in {"cell7", "j_cell7", "j_fit"} -> 7
      [] c \in {"cell8", "j_cell8"} -> 8
      [] c \in {"cell9", "cell9_loop", "j_cell9"} -> 9
      [] c = "cell10" -> 10
      [] c = "cell11" -> 11
      [] c = "end" -> CASE nb = "func" -> 12
                        [] nb = "meth" -> 6
                        [] nb = "joblib" -> 10

\* How many of the actions in the set of truth values are enabled.
Count(bs) == Len(SelectSeq(bs, LAMBDA b : b))

\* The caller does not wait outside the resolution points, and at most
\* one of its operations can be taken.
C12_NoWait ==
    /\ pc \notin ResolutionPoints \cup {"end"} => ENABLED CallerStep
    /\ Count(<<ENABLED Cell1_Init, ENABLED Cell2_Imports, ENABLED Cell3_Def,
               ENABLED Cell4_Call, ENABLED Cell5_DefRemote,
               ENABLED Cell6_Submit, ENABLED Cell7_Get, ENABLED Cell8_DefSlow,
               ENABLED Cell9_Begin, ENABLED Cell9_Iter, ENABLED Cell10_Iter,
               ENABLED Shutdown, ENABLED MCell2_Class, ENABLED MCell3_Create,
               ENABLED MCell4_Submit, ENABLED MCell4_Get,
               ENABLED JCell2_Imports, ENABLED JCell3_Register,
               ENABLED JCell4_Load, ENABLED JCell5_Space,
               ENABLED JCell6_Search, ENABLED JCell7_Fit,
               ENABLED JFit_Dispatch, ENABLED JCell7_Return,
               ENABLED JCell8_Best>>) <= 1

\* The caller moves through the cells in their order, and a step that is
\* not the caller's leaves the caller where it is.
C12_InOrder ==
    /\ CellNo(pc) <= CellNo(pc') /\ CellNo(pc') <= CellNo(pc) + 1
    /\ callerVars' # callerVars => CallerStep

\* C12: the caller is single-threaded and synchronous.  It runs the cells
\* one at a time in their order, at most one of its operations can be
\* taken in any state, and it waits nowhere but inside a ray.get or inside
\* clf.fit: everywhere else its next step can be taken at once.
C12_SingleThreaded == []C12_NoWait /\ [][C12_InOrder]_vars

\* The caller waits inside clf.fit for fits that are still running, and no
\* step of its own can be taken.
C12_Witness ==
    /\ pc = "j_fit"
    /\ fit.dispatched = NumFits
    /\ fit.running > 0
    /\ ~ENABLED CallerStep

\* C14: the randomized search dispatches exactly 50 fits and clf.fit
\* returns after all of them.  There are 5 * 10 = 50 fits; never are more
\* fits completed or running than were dispatched, nor more dispatched
\* than 50; and once clf.fit has returned, so wherever best_params_ is
\* read, 50 fits were dispatched and 50 have completed.
C14_FiftyFits ==
    /\ NumFits = 50
    /\ fit.done + fit.running <= fit.dispatched
    /\ fit.dispatched <= NumFits
    /\ nb = "joblib" /\ pc \in {"j_cell8", "j_cell9", "end"} =>
          /\ fit.dispatched = 50
          /\ fit.done = 50
          /\ fit.running = 0
          /\ log = <<(<<"Fitting", 50>>), (<<"Done", 50>>)>>

\* best_params_ is about to be read, all 50 fits done.
C14_Witness ==
    /\ pc = "j_cell8"
    /\ fit.done = 50

\* C13: every remote operation happens inside the session.  A step that
\* submits a task, creates an actor, runs or completes a task, an actor call
\* or a fit, or returns from a ray.get is taken with the session connected
\* and leaves it connected; the session changes only from none to connected
\* in cell 1 and from connected to shutdown in the last cell, after which
\* the notebook is over.
C13_Step ==
    /\ tasks' # tasks \/ actors' # actors \/ got' # got \/ fit' # fit
          \/ completed' # completed =>
          session = "connected" /\ session' = "connected"
    /\ session' # session =>
          \/ session = "none" /\ session' = "connected" /\ pc = "cell1"
          \/ session = "connected" /\ session' = "shutdown" /\ pc' = "end"
    /\ pc = "cell1" => session = "none"
    /\ pc = "end" => session = "shutdown"

C13_InSession == [][C13_Step]_vars

\* The actor notebook is over: the session is shut down, and an actor was
\* created, called and its call resolved while there was one.
C13_Witness ==
    /\ session = "shutdown"
    /\ actors # <<>>
    /\ tasks # <<>>
    /\ got # {}

\* The values the resolution loop has logged, in the order it logged them.
LoopValues == [k \in 1..(Len(log) - NumIter) |-> log[NumIter + k][2]]

Rank(h) == Cardinality({e \in 1..h : tasks[e].actor = tasks[h].actor})

C17_Step ==
    /\ Len(actors') >= Len(actors)
    /\ Len(actors') > Len(actors) =>
          /\ actors'[Len(actors')] = NewActor
          /\ \A a \in ActorIds : actors'[a] = actors[a]
    /\ \A a \in ActorIds :
          /\ actors[a].state = "creating" /\ actors'[a].state = "alive" =>
                actors'[a].self.value = 0
          /\ actors'[a].self # actors[a].self =>
                /\ \A b \in ActorIds \ {a} : actors'[b].self = actors[b].self
                /\ callerVars' = callerVars
    /\ \A a \in 1..Len(actors') :
          actors'[a].state = "alive" =>
              actors'[a].self.value =
                  Cardinality({h \in 1..Len(tasks') :
                                  tasks'[h].actor = a /\ tasks'[h].status = "done"})
    /\ counter' \in 0..Len(actors')

C17_PrivateState == [][C17_Step]_vars

\* Two actors, the first incremented twice and the second once.
C17_Witness ==
    /\ Len(actors) = 2
    /\ actors[1].state = "alive" /\ actors[1].self.value = 2
    /\ actors[2].state = "alive" /\ actors[2].self.value = 1

\* C19: ray.init with ignore_reinit_error=True is idempotent.  A step in
\* which cell 1 is run with a session connected raises no error and leaves
\* the session connected, the caller where it was, and every task, actor,
\* handle and variable as it was: init run again changes nothing that the
\* first run set; and no run of cell 1 ends in an error.
C19_Step ==
    /\ inits' # inits /\ session = "connected" =>
          /\ inits' = inits + 1
          /\ session' = "connected"
          /\ pc' = pc
          /\ tasks' = tasks
          /\ actors' = actors
          /\ completed' = completed
          /\ callerVars' = callerVars
    /\ inits' # inits => session' = "connected" /\ pc' # "error"

C18_AllResolvedAtShutdown ==
    pc \in {"cell11", "m_cell5", "end"} \/ session = "shutdown" =>
        /\ \A h \in Handles :
              /\ tasks[h].status = "done"
              /\ \E g \in got : g.h = h
        /\ nb = "func" =>
              {g.h : g \in got} = {obj_ref} \cup
                  {futures_list[j] : j \in 1..Len(futures_list)}
        /\ nb = "func" => Len(tasks) = NumIter + 1
        /\ nb = "meth" => Len(tasks) >= 1 /\ obj_ref \in {g.h : g \in got}

\* The functions notebook has shut the session down, its 5 handles
\* resolved.
C18_Witness ==
    /\ session = "shutdown"
    /\ nb = "func"
    /\ Cardinality({g.h : g \in got}) = NumIter + 1

=============================================================================
